---- MODULE Spec2Model ----
(***************************************************************************)
(* The angelscript_searchApi tool of vscode-unreal-angelscript, as served  *)
(* by its two MCP servers:                                                 *)
(*   "integrated"  the extension-integrated server (class                  *)
(*                 AngelscriptMcpServer, src/unnamed/part_000), which      *)
(*                 talks to the language server through the shared         *)
(*                 LanguageClient and enriches the matches through a       *)
(*                 window of CONCURRENCY_LIMIT concurrent requests;        *)
(*   "standalone"  the standalone server (src/mcp-server/src/index.ts),    *)
(*                 which calls the type database in-process, one item      *)
(*                 after the other.                                        *)
(* A behaviour is the life of one server process: `impl` says which.       *)
(*                                                                         *)
(* JavaScript values are records tagged by their typeof: a property that   *)
(* is absent reads as Undefined.  Strings are sequences of characters.     *)
(* Numbers are rationals n/d (d > 0), which is what a JSON document can    *)
(* carry.                                                                  *)
(***************************************************************************)
EXTENDS Integers, Sequences, FiniteSets, TLC

(* ------------------------------ bounds -------------------------------- *)

\* Matches the provider returns at most when the environment is exhaustive
\* (every raw argument, every settlement order, every outcome of every fetch).
MaxMatches == 3

\* Matches the provider returns at most when the environment is the large
\* one (more matches than the window is wide).
MaxN == 11

\* In the large and small environments: how many times, during one
\* invocation, the environment departs from "the oldest fetch in flight
\* succeeds with its document and its handlers run before anything else
\* happens".
MaxDeviations == 1

\* Matches the provider returns at most when the environment is the small
\* one (the specifications that follow two invocations at a time).
MaxSmall == 2

(* --------------------------- JavaScript values ------------------------ *)

Undefined == [t |-> "undefined"]

Null == [t |-> "null"]

Str(s) == [t |-> "string", s |-> s]

Num(n, d) == [t |-> "number", n |-> n, d |-> d]

Bool(b) == [t |-> "boolean", b |-> b]

\* The opaque handle of the match of rank r.
Token(r) == [t |-> "object", id |-> r]

\* The call arguments { query, limit, includeDetails }.
Args(q, l, d) == [t |-> "object", query |-> q, limit |-> l, includeDetails |-> d]

\* if (v), !v
Truthy(v) ==
    CASE v.t = "undefined" -> FALSE
      [] v.t = "null" -> FALSE
      [] v.t = "string" -> Len(v.s) > 0
      [] v.t = "number" -> v.n # 0
      [] v.t = "boolean" -> v.b
      [] OTHER -> TRUE

\* v ?? undefined
OrUndefined(v) == IF v.t = "null" THEN Undefined ELSE v

Whitespace == {" ", "\t", "\n"}

\* String.prototype.trim
RECURSIVE TrimStart(_)
TrimStart(s) ==
    IF s # <<>> /\ Head(s) \in Whitespace THEN TrimStart(Tail(s)) ELSE s

RECURSIVE TrimEnd(_)
TrimEnd(s) ==
    IF s # <<>> /\ s[Len(s)] \in Whitespace
    THEN TrimEnd(SubSeq(s, 1, Len(s) - 1))
    ELSE s

Trim(s) == TrimEnd(TrimStart(s))

\* Math.floor, Math.max, Math.min
Floor(v) == v.n \div v.d

Max(a, b) == IF a >= b THEN a ELSE b

Min(a, b) == IF a <= b THEN a ELSE b

(* ------------------------- the tool's constants ----------------------- *)

ToolName == <<"angelscript_searchApi">>

CONCURRENCY_LIMIT == 10

LimitMin == 1

LimitMax == 1000

LimitDefault == 500

(* ----------------------- request validation -------------------------- *)

\* A seeded fault: the query is not trimmed.
QueryOfUntrimmed(params) ==
    IF params.query.t = "string" THEN params.query.s ELSE <<>>

\* typeof params.query === "string" ? params.query.trim() : ""
QueryOf(params) ==
    IF params.query.t = "string" THEN Trim(params.query.s) ELSE <<>>

\* A seeded fault: the limit is not clamped from below.
LimitOfNoLowerClamp(params) ==
    IF params.limit.t = "number"
    THEN Min(Floor(params.limit), LimitMax)
    ELSE LimitDefault

\* typeof params.limit === "number"
\*     ? Math.min(Math.max(Math.floor(params.limit), 1), 1000) : 500
LimitOf(params) ==
    IF params.limit.t = "number"
    THEN Min(Max(Floor(params.limit), LimitMin), LimitMax)
    ELSE LimitDefault

\* A seeded fault: if (params.includeDetails) instead of !== false.
IncludeDetailsIfTruthy(params) == Truthy(params.includeDetails)

\* params.includeDetails !== false
IncludeDetailsOf(params) == params.includeDetails # Bool(FALSE)

(* ------------------------------ responses ----------------------------- *)

NoQueryText == Str(<<"No query provided. Please supply a search query.">>)

EmptyDatabaseText ==
    Str(<<"Angelscript types have not been loaded. The type database is empty.">>)

NoResultsText(q) == Str(<<"No Angelscript API results for \"">> \o q \o <<"\".">>)

IntegratedFailedText ==
    Str(<<"The Angelscript API tool failed to run. ",
          "Please ensure the language server is running and try again.">>)

StandaloneFailedText ==
    Str(<<"The Angelscript API tool failed to run. ",
          "Please ensure the type database is properly initialized.">>)

UnknownToolText(tool) == Str(<<"Unknown tool: ">> \o tool)

\* JSON.stringify of one item: a property whose value is undefined is left out.
StringifyItem(item) ==
    [k \in {f \in DOMAIN item : item[f] # Undefined} |-> item[k]]

\* JSON.stringify(payload, null, 2)
Stringify(p) ==
    [t |-> "json",
     query |-> p.query,
     total |-> p.total,
     returned |-> p.returned,
     truncated |-> p.truncated,
     items |-> [k \in 1..Len(p.items) |-> StringifyItem(p.items[k])]]

\* A seeded fault: the response never carries isError.
ResponseUnflagged(text, isError) == [t |-> "response", text |-> text, isError |-> FALSE]

\* What the call_tool handler returns: { content: [{ type: "text", text }] },
\* with isError: true for an unknown tool.
Response(text, isError) == [t |-> "response", text |-> text, isError |-> isError]

\* The handler's promise rejects with the error.
Thrown(error) == [t |-> "thrown", error |-> error]

\* A seeded fault: performApiSearch without its try/catch.
Uncaught(text) == Thrown("Error")

\* catch (error) { console.error(...); return "The Angelscript API tool
\* failed to run. ..." }
Caught(text) == Response(text, FALSE)

NoResult == [t |-> "none"]

(* ------------------------------ provider ------------------------------ *)

\* The match of rank r as the provider returns it.  The match of rank `hole`
\* (if any) comes without data; every second match comes without type.
Match(r, hole) ==
    [label |-> Str(<<"symbol", ToString(r)>>),
     type |-> IF r % 2 = 1 THEN Str(<<"method">>) ELSE Null,
     data |-> IF r = hole THEN Null ELSE Token(r)]

\* The ranked list of n matches.
Results(n, hole) == [r \in 1..n |-> Match(r, hole)]

\* The detail document the provider holds for a token; it has none for a
\* request that carries no token.
DocumentOf(data) ==
    IF data.t = "object" THEN Str(<<"details", ToString(data.id)>>) ELSE Str(<<>>)

\* How a fetchDetail call can end: its document, an empty document, a failure.
Fulfilled(doc) == [ok |-> TRUE, details |-> doc]

Rejected == [ok |-> FALSE, details |-> Undefined]

Outcomes(data) == {Fulfilled(DocumentOf(data)), Fulfilled(Str(<<>>)), Rejected}

(* ------------------------------- inputs ------------------------------- *)

ToolNames == {ToolName, <<"foo">>}

RawQueries ==
    {Undefined, Num(42, 1), Str(<<>>), Str(<<" ", "\t">>),
     Str(<<" ", "a", "\n">>), Str(<<"a">>)}

RawLimits ==
    {Undefined, Str(<<"a", "b", "c">>), Num(-5, 1), Num(0, 1), Num(1, 2),
     Num(-1, 2), Num(5, 2), Num(1000, 1), Num(500000, 1)}

RawIncludeDetails ==
    {Undefined, Null, Bool(TRUE), Bool(FALSE), Num(0, 1), Str(<<"false">>)}

\* request.params.arguments: absent, or an object.
RawArguments ==
    {Undefined} \cup
    {Args(q, l, d) : q \in RawQueries, l \in RawLimits, d \in RawIncludeDetails}

\* The few argument shapes of the small environment.
SmallArguments ==
    {Undefined,
     Args(Str(<<" ", "\t">>), Undefined, Undefined),
     Args(Str(<<"a">>), Undefined, Undefined),
     Args(Str(<<"a">>), Num(1, 2), Undefined),
     Args(Str(<<"a">>), Undefined, Bool(FALSE))}

(* ------------------------------- state -------------------------------- *)

\* The invocations in flight at the same time are told apart by their slot.
AllSlots == {1, 2}

\* Spec serves one invocation at a time.
Slots == {1}

VARIABLES
    impl,           \* which server this process is
    env,            \* "exhaustive", "large" or "small": see the bounds
    transport,      \* this.transport: "null", or "connected" once the server is
    clientReady,    \* this.clientReady: "pending", "resolved" or "rejected"
    hasData,        \* typedb.HasTypesFromUnreal()
    pc,             \* where each invocation stands
    name,           \* request.params.name
    params,         \* the raw arguments, while they are still read
    query,          \* const query
    limit,          \* const limit
    includeDetails, \* const includeDetails
    results,        \* const results
    payload,        \* const payload
    nextIndex,      \* let nextIndex
    activeCount,    \* let activeCount
    allDetails,     \* const allDetails
    inFlight,       \* indices whose sendRequest promise is pending
    recorded,       \* indices whose then/catch handler ran, finally pending
    hung,           \* indices whose sendRequest promise will never settle
    loopIndex,      \* standalone: items the for-of loop has been through
    budget,         \* large environment: deviations left
    calls,          \* history: the provider calls each invocation made
    result          \* what the handler returned

vars ==
    <<impl, env, transport, clientReady, hasData, pc, name, params, query, limit, includeDetails,
      results, payload, nextIndex, activeCount, allDetails, inFlight, recorded, hung,
      loopIndex, budget, calls, result>>

\* No request is being handled.
NoName == <<>>

NoParams == [t |-> "none"]

NoPayload ==
    [query |-> <<>>, total |-> 0, returned |-> 0, truncated |-> FALSE, items |-> <<>>]

\* hasData, search: how many times each was called; fetchDetail: the item
\* indices fetchDetail was called for, in call order; settled: how each of
\* those calls ended, in the order they ended; resolveAll: how many times
\* the enrichment promise's resolveAll was called.
NoCalls ==
    [hasData |-> 0, search |-> 0, fetchDetail |-> <<>>, settled |-> <<>>, resolveAll |-> 0]

\* The server as constructed: not connected, the gate pending, no request
\* in hand.
Constructed ==
    /\ transport = "null"
    /\ clientReady = "pending"
    /\ hasData \in BOOLEAN
    /\ pc = [i \in AllSlots |-> "idle"]
    /\ name = [i \in AllSlots |-> NoName]
    /\ params = [i \in AllSlots |-> NoParams]
    /\ query = [i \in AllSlots |-> <<>>]
    /\ limit = [i \in AllSlots |-> 0]
    /\ includeDetails = [i \in AllSlots |-> FALSE]
    /\ results = [i \in AllSlots |-> Undefined]
    /\ payload = [i \in AllSlots |-> NoPayload]
    /\ nextIndex = [i \in AllSlots |-> 0]
    /\ activeCount = [i \in AllSlots |-> 0]
    /\ allDetails = [i \in AllSlots |-> <<>>]
    /\ inFlight = [i \in AllSlots |-> {}]
    /\ recorded = [i \in AllSlots |-> {}]
    /\ hung = [i \in AllSlots |-> {}]
    /\ loopIndex = [i \in AllSlots |-> 0]
    /\ budget = [i \in AllSlots |-> 0]
    /\ calls = [i \in AllSlots |-> NoCalls]
    /\ result = [i \in AllSlots |-> NoResult]

Init ==
    /\ impl \in {"integrated", "standalone"}
    /\ env \in {"exhaustive", "large"}
    /\ Constructed

InitSmall ==
    /\ impl \in {"integrated", "standalone"}
    /\ env = "small"
    /\ Constructed

(* --------------------------- shared pipeline -------------------------- *)

\* A seeded fault: the slice keeps one match too many.
SliceOneMore(list, n) == SubSeq(list, 1, Min(Max(n, 0) + 1, Len(list)))

\* results.slice(0, limit)
Slice(list, n) == SubSeq(list, 1, Min(Max(n, 0), Len(list)))

\* The projection of one match: { label, type: item.type ?? undefined,
\* data: item.data ?? undefined }; details is absent until it is assigned.
ProjectItem(item) ==
    [label |-> item.label,
     type |-> OrUndefined(item.type),
     data |-> OrUndefined(item.data),
     details |-> Undefined]

\* const items = results.slice(0, limit); const payload = { ... }
BuildPayload(q, list, lim) ==
    LET items == Slice(list, lim)
    IN  [query |-> q,
         total |-> Len(list),
         returned |-> Len(items),
         truncated |-> Len(list) > Len(items),
         items |-> [k \in 1..Len(items) |-> ProjectItem(items[k])]]

\* What a search can answer: null, or a ranked list.  A provider with no
\* data loaded has no match to return.
MaxResults ==
    CASE env = "large" -> MaxN
      [] env = "small" -> MaxSmall
      [] OTHER -> MaxMatches

\* request.params.arguments, as the environment sends them.
Arguments == IF env = "small" THEN SmallArguments ELSE RawArguments

SearchAnswers ==
    {Null} \cup
    {[t |-> "array", list |-> Results(n, hole)] :
        n \in 0..(IF hasData THEN MaxResults ELSE 0),
        hole \in 0..(IF env = "exhaustive" THEN MaxMatches ELSE 0)}

\* !results || results.length === 0
NoMatches(answer) == answer.t = "null" \/ Len(answer.list) = 0

\* The item at a (0-based) index of the payload.
ItemAt(p, index) == p.items[index + 1]

\* The documents a fetch may be answered with, and what an answer costs the
\* large environment.
IsNominal(outcome, data) == outcome = Fulfilled(DocumentOf(data))

Cost(b) == IF b THEN 1 ELSE 0

\* Only the exhaustive environment departs from the nominal schedule as
\* often as it likes.
Budgeted == env # "exhaustive"

(* ------------------- the extension-integrated server ------------------ *)

\* The call_tool handler up to the first await of performApiSearch.
IntegratedCallTool(i) ==
    /\ impl = "integrated"
    /\ transport = "connected"
    /\ pc[i] = "idle"
    /\ \E tool \in ToolNames, args \in Arguments :
         LET q == QueryOf(args)
         IN  /\ name' = [name EXCEPT ![i] = tool]
             /\ calls' = [calls EXCEPT ![i] = NoCalls]
             /\ budget' = [budget EXCEPT ![i] = MaxDeviations]
             /\ IF tool # ToolName
                THEN /\ pc' = [pc EXCEPT ![i] = "done"]
                     /\ result' = [result EXCEPT ![i] =
                                      Response(UnknownToolText(tool), TRUE)]
                     /\ UNCHANGED <<params, query>>
                ELSE IF args.t # "object"
                THEN \* params.query: TypeError, outside the try
                     /\ pc' = [pc EXCEPT ![i] = "done"]
                     /\ result' = [result EXCEPT ![i] = Thrown("TypeError")]
                     /\ UNCHANGED <<params, query>>
                ELSE IF q = <<>>
                THEN /\ pc' = [pc EXCEPT ![i] = "done"]
                     /\ result' = [result EXCEPT ![i] = Response(NoQueryText, FALSE)]
                     /\ params' = [params EXCEPT ![i] = args]
                     /\ query' = [query EXCEPT ![i] = q]
                ELSE /\ pc' = [pc EXCEPT ![i] = "awaitReady"]
                     /\ params' = [params EXCEPT ![i] = args]
                     /\ query' = [query EXCEPT ![i] = q]
                     /\ UNCHANGED result
    /\ UNCHANGED <<impl, env, transport, clientReady, hasData, results, limit,
                   includeDetails, payload, nextIndex, activeCount, allDetails, inFlight,
                   recorded, hung, loopIndex>>

\* A seeded fault: the gate is not awaited.
NotAwaited(gate) == TRUE

\* await <gate> resumes only once the promise is settled.
Settled(gate) == gate # "pending"

\* await this.clientReady resumes: limit, includeDetails, and the search
\* request is sent; a rejected gate lands in the catch.
IntegratedReady(i) ==
    /\ impl = "integrated"
    /\ pc[i] = "awaitReady"
    /\ Settled(clientReady)
    /\ IF clientReady # "rejected"
       THEN /\ limit' = [limit EXCEPT ![i] = LimitOf(params[i])]
            /\ includeDetails' = [includeDetails EXCEPT ![i] = IncludeDetailsOf(params[i])]
            /\ calls' = [calls EXCEPT ![i].search = @ + 1]
            /\ pc' = [pc EXCEPT ![i] = "awaitSearch"]
            /\ UNCHANGED result
       ELSE /\ pc' = [pc EXCEPT ![i] = "done"]
            /\ result' = [result EXCEPT ![i] = Caught(IntegratedFailedText)]
            /\ UNCHANGED <<limit, includeDetails, calls>>
    /\ UNCHANGED <<impl, env, transport, name, clientReady, hasData, results, params, query,
                   payload, nextIndex, activeCount, allDetails, inFlight, recorded, hung,
                   loopIndex, budget>>

\* A seeded fault: startNext that fills without looking at activeCount.
RECURSIVE startNextUnbounded(_, _)
startNextUnbounded(st, totalItems) ==
    IF st.nextIndex < totalItems
    THEN startNextUnbounded([nextIndex |-> st.nextIndex + 1,
                             activeCount |-> st.activeCount + 1,
                             inFlight |-> st.inFlight \cup {st.nextIndex},
                             issued |-> Append(st.issued, st.nextIndex)],
                            totalItems)
    ELSE st

\* A seeded fault: a batch scheme, which admits new requests only once
\* none is active.
startNextBatch(st, totalItems) ==
    IF st.activeCount > 0
    THEN st
    ELSE LET k == Min(totalItems - st.nextIndex, CONCURRENCY_LIMIT)
         IN  [nextIndex |-> st.nextIndex + k,
              activeCount |-> k,
              inFlight |-> st.inFlight \cup (st.nextIndex..(st.nextIndex + k - 1)),
              issued |-> st.issued \o [j \in 1..k |-> st.nextIndex + j - 1]]

\* const startNext = () => { while (...) { ... sendRequest(...) ... } }
\* st: [nextIndex, activeCount, inFlight, issued]
RECURSIVE startNext(_, _)
startNext(st, totalItems) ==
    IF st.nextIndex < totalItems /\ st.activeCount < CONCURRENCY_LIMIT
    THEN LET currentIndex == st.nextIndex
         IN  startNext([nextIndex |-> st.nextIndex + 1,
                        activeCount |-> st.activeCount + 1,
                        inFlight |-> st.inFlight \cup {currentIndex},
                        issued |-> Append(st.issued, currentIndex)],
                       totalItems)
    ELSE st

\* A seeded fault: the k-th detail to arrive is given to the k-th item.
MapDetailsByArrival(items, details) ==
    [k \in 1..Len(items) |->
        IF k <= Len(details)
        THEN [items[k] EXCEPT !.details = details[k].details]
        ELSE items[k]]

\* A seeded fault: the item is replaced by a new object that keeps the label
\* and the details only.
MapDetailsOverItem(items, details) ==
    [k \in 1..Len(items) |->
        IF \E j \in 1..Len(details) : details[j].index = k - 1
        THEN LET j == CHOOSE j \in 1..Len(details) : details[j].index = k - 1
             IN  [label |-> items[k].label, type |-> Undefined, data |-> Undefined,
                  details |-> details[j].details]
        ELSE items[k]]

\* for (const detail of allDetails) payload.items[detail.index].details = detail.details
RECURSIVE MapDetails(_, _)
MapDetails(items, details) ==
    IF details = <<>>
    THEN items
    ELSE MapDetails([items EXCEPT ![Head(details).index + 1].details = Head(details).details],
                    Tail(details))

\* A seeded fault: nextIndex, activeCount and allDetails are kept in one
\* place for every invocation (fields of the server, not locals).
SharedLocals(i) == 1

\* The activation of performApiSearch that holds an invocation's nextIndex,
\* activeCount and allDetails: its own.
Locals(i) == i

\* await sendRequest(GetAPISearchRequest, query) settles: the no-results
\* message, or the payload and (if requested) the first fill of the window;
\* a failed request lands in the catch.  params is not read from here on.
IntegratedSearchResponse(i) ==
    /\ impl = "integrated"
    /\ pc[i] = "awaitSearch"
    /\ \E answer \in SearchAnswers \cup {[t |-> "error"]} :
       /\ results' = [results EXCEPT ![i] = IF answer.t = "error" THEN @ ELSE answer]
       /\
         IF answer.t = "error"
         THEN /\ pc' = [pc EXCEPT ![i] = "done"]
              /\ result' = [result EXCEPT ![i] = Caught(IntegratedFailedText)]
              /\ UNCHANGED <<payload, nextIndex, activeCount, allDetails, inFlight, calls>>
         ELSE IF NoMatches(answer)
         THEN /\ pc' = [pc EXCEPT ![i] = "done"]
              /\ result' = [result EXCEPT ![i] = Response(NoResultsText(query[i]), FALSE)]
              /\ UNCHANGED <<payload, nextIndex, activeCount, allDetails, inFlight, calls>>
         ELSE LET p == BuildPayload(query[i], answer.list, limit[i])
                  totalItems == Len(p.items)
                  st == startNext([nextIndex |-> 0, activeCount |-> 0,
                                   inFlight |-> {}, issued |-> <<>>], totalItems)
              IN  /\ payload' = [payload EXCEPT ![i] = p]
                  /\ IF includeDetails[i] /\ totalItems > 0
                     THEN /\ nextIndex' = [nextIndex EXCEPT ![Locals(i)] = st.nextIndex]
                          /\ activeCount' = [activeCount EXCEPT ![Locals(i)] = st.activeCount]
                          /\ inFlight' = [inFlight EXCEPT ![i] = st.inFlight]
                          /\ allDetails' = [allDetails EXCEPT ![Locals(i)] = <<>>]
                          /\ calls' = [calls EXCEPT ![i].fetchDetail = @ \o st.issued]
                          /\ pc' = [pc EXCEPT ![i] = "enriching"]
                          /\ UNCHANGED result
                     ELSE /\ pc' = [pc EXCEPT ![i] = "done"]
                          /\ result' = [result EXCEPT ![i] = Response(Stringify(p), FALSE)]
                          /\ UNCHANGED <<nextIndex, activeCount, allDetails, inFlight, calls>>
    /\ params' = [params EXCEPT ![i] = NoParams]
    /\ UNCHANGED <<impl, env, transport, name, clientReady, hasData, query, limit, includeDetails,
                   recorded, hung, loopIndex, budget>>

Oldest(S) == CHOOSE m \in S : \A x \in S : m <= x

\* One sendRequest(GetAPIDetailsRequest, itemData) settles and its .then or
\* .catch handler runs: allDetails.push({ index: currentIndex, details }).
IntegratedRecord(i) ==
    /\ impl = "integrated"
    /\ \E currentIndex \in inFlight[i] \ hung[i] :
         \E outcome \in Outcomes(ItemAt(payload[i], currentIndex).data) :
           LET cost == Cost(currentIndex # Oldest(inFlight[i] \ hung[i]))
                       + Cost(~IsNominal(outcome, ItemAt(payload[i], currentIndex).data))
                       + Cost(recorded[i] # {})
           IN  /\ Budgeted => cost <= budget[i]
               /\ budget' = [budget EXCEPT ![i] = IF Budgeted THEN @ - cost ELSE @]
               /\ allDetails' = [allDetails EXCEPT ![Locals(i)] =
                      Append(@, [index |-> currentIndex, details |-> outcome.details])]
               /\ inFlight' = [inFlight EXCEPT ![i] = @ \ {currentIndex}]
               /\ recorded' = [recorded EXCEPT ![i] = @ \cup {currentIndex}]
               /\ calls' = [calls EXCEPT ![i].settled =
                      Append(@, [index |-> currentIndex, outcome |-> outcome])]
    /\ UNCHANGED <<impl, env, transport, name, clientReady, hasData, results, pc, params, query,
                   limit, includeDetails, payload, nextIndex, activeCount, hung, loopIndex,
                   result>>

\* A request that is in flight turns out to be one the language server
\* never answers: its promise stays pending for good.
FetchHangs(i) ==
    /\ impl = "integrated"
    /\ \E currentIndex \in inFlight[i] \ hung[i] :
         hung' = [hung EXCEPT ![i] = @ \cup {currentIndex}]
    /\ Budgeted => budget[i] >= 1
    /\ budget' = [budget EXCEPT ![i] = IF Budgeted THEN @ - 1 ELSE @]
    /\ UNCHANGED <<impl, env, transport, name, clientReady, hasData, results, pc, params, query,
                   limit, includeDetails, payload, nextIndex, activeCount, allDetails,
                   inFlight, recorded, loopIndex, calls, result>>

\* A seeded fault: the step is resolved once every index is dispatched.
AllDispatched(next, active, totalItems) == next >= totalItems

\* A seeded fault: the step is resolved with one request still active.
AllSettledButOne(next, active, totalItems) == next >= totalItems /\ active <= 1

\* A seeded fault: the last index is compared with > in place of >=.
AllSettledStrictly(next, active, totalItems) == next > totalItems /\ active = 0

\* nextIndex >= totalItems && activeCount === 0
AllSettled(next, active, totalItems) == next >= totalItems /\ active = 0

\* The .finally handler of a settled request: activeCount--, then
\* resolveAll() or startNext().  resolveAll() lets the await resume the
\* first time it is called.
IntegratedFinally(i) ==
    /\ impl = "integrated"
    /\ \E currentIndex \in recorded[i] :
         LET totalItems == Len(payload[i].items)
             active == activeCount[Locals(i)] - 1
             st == startNext([nextIndex |-> nextIndex[Locals(i)], activeCount |-> active,
                              inFlight |-> inFlight[i], issued |-> <<>>], totalItems)
         IN  /\ recorded' = [recorded EXCEPT ![i] = @ \ {currentIndex}]
             /\ IF AllSettled(nextIndex[Locals(i)], active, totalItems)
                THEN /\ activeCount' = [activeCount EXCEPT ![Locals(i)] = active]
                     /\ pc' = [pc EXCEPT ![i] = IF @ = "enriching" THEN "resolved" ELSE @]
                     /\ calls' = [calls EXCEPT ![i].resolveAll = @ + 1]
                     /\ UNCHANGED <<nextIndex, inFlight>>
                ELSE /\ nextIndex' = [nextIndex EXCEPT ![Locals(i)] = st.nextIndex]
                     /\ activeCount' = [activeCount EXCEPT ![Locals(i)] = st.activeCount]
                     /\ inFlight' = [inFlight EXCEPT ![i] = st.inFlight]
                     /\ calls' = [calls EXCEPT ![i].fetchDetail = @ \o st.issued]
                     /\ UNCHANGED pc
    /\ UNCHANGED <<impl, env, transport, name, clientReady, hasData, results, params, query,
                   limit, includeDetails, payload, allDetails, hung, loopIndex, budget,
                   result>>

\* The await of the enrichment promise resumes: the details are mapped back
\* by index and the payload is serialized.
IntegratedComplete(i) ==
    /\ impl = "integrated"
    /\ pc[i] = "resolved"
    /\ LET p == [payload[i] EXCEPT !.items = MapDetails(@, allDetails[Locals(i)])]
       IN  /\ payload' = [payload EXCEPT ![i] = p]
           /\ result' = [result EXCEPT ![i] = Response(Stringify(p), FALSE)]
    /\ pc' = [pc EXCEPT ![i] = "done"]
    /\ UNCHANGED <<impl, env, transport, name, clientReady, hasData, results, params, query,
                   limit, includeDetails, nextIndex, activeCount, allDetails, inFlight,
                   recorded, hung, loopIndex, budget, calls>>

\* The response is on its way to the client; the invocation's locals are gone.
Deliver(i) ==
    /\ pc[i] = "done"
    /\ pc' = [pc EXCEPT ![i] = "idle"]
    /\ name' = [name EXCEPT ![i] = NoName]
    /\ params' = [params EXCEPT ![i] = NoParams]
    /\ query' = [query EXCEPT ![i] = <<>>]
    /\ limit' = [limit EXCEPT ![i] = 0]
    /\ includeDetails' = [includeDetails EXCEPT ![i] = FALSE]
    /\ results' = [results EXCEPT ![i] = Undefined]
    /\ payload' = [payload EXCEPT ![i] = NoPayload]
    /\ nextIndex' = [nextIndex EXCEPT ![Locals(i)] = 0]
    /\ activeCount' = [activeCount EXCEPT ![Locals(i)] = 0]
    /\ allDetails' = [allDetails EXCEPT ![Locals(i)] = <<>>]
    /\ inFlight' = [inFlight EXCEPT ![i] = {}]
    /\ recorded' = [recorded EXCEPT ![i] = {}]
    /\ hung' = [hung EXCEPT ![i] = {}]
    /\ loopIndex' = [loopIndex EXCEPT ![i] = 0]
    /\ budget' = [budget EXCEPT ![i] = 0]
    /\ calls' = [calls EXCEPT ![i] = NoCalls]
    /\ result' = [result EXCEPT ![i] = NoResult]
    /\ UNCHANGED <<impl, env, transport, clientReady, hasData>>

(* ------------------------------ lifecycle ----------------------------- *)

\* A seeded fault: start() creates no transport and connects nothing.
StartWithoutTransport ==
    /\ UNCHANGED <<impl, env, transport, clientReady, hasData, pc, name, params, query,
                   limit, includeDetails, results, payload, nextIndex, activeCount,
                   allDetails, inFlight, recorded, hung, loopIndex, budget, calls, result>>

\* start() of the integrated server, main() of the standalone one: the
\* server is connected to a new StdioServerTransport.
Start ==
    /\ transport' = "connected"
    /\ UNCHANGED <<impl, env, clientReady, hasData, pc, name, params, query, limit,
                   includeDetails, results, payload, nextIndex, activeCount, allDetails,
                   inFlight, recorded, hung, loopIndex, budget, calls, result>>

\* stop() of the integrated server: with a transport the server is closed
\* and the field is cleared, without one nothing happens.  Handlers that
\* are running are not touched.  The standalone server has no stop.
Stop ==
    /\ impl = "integrated"
    /\ transport' = IF transport # "null" THEN "null" ELSE transport
    /\ UNCHANGED <<impl, env, clientReady, hasData, pc, name, params, query, limit,
                   includeDetails, results, payload, nextIndex, activeCount, allDetails,
                   inFlight, recorded, hung, loopIndex, budget, calls, result>>

\* The list_tools handler of a connected server: it answers with the one
\* tool definition and keeps no state.
ListTools ==
    /\ transport = "connected"
    /\ UNCHANGED vars

(* ----------------------------- environment ---------------------------- *)

\* The language client becomes usable, or fails to start.
GateSettles ==
    /\ impl = "integrated"
    /\ clientReady = "pending"
    /\ clientReady' \in {"resolved", "rejected"}
    /\ UNCHANGED <<impl, env, transport, name, hasData, results, pc, params, query, limit,
                   includeDetails, payload, nextIndex, activeCount, allDetails, inFlight,
                   recorded, hung, loopIndex, budget, calls, result>>

\* The type database receives its types from the editor or the cache.
TypesLoaded ==
    /\ ~hasData
    /\ hasData' = TRUE
    /\ UNCHANGED <<impl, env, transport, name, clientReady, results, pc, params, query,
                   limit, includeDetails, payload, nextIndex, activeCount, allDetails,
                   inFlight, recorded, hung, loopIndex, budget, calls, result>>

(* ------------------------ the standalone server ----------------------- *)

\* The call_tool handler and performApiSearch down to includeDetails: the
\* query check, the HasTypesFromUnreal check, limit and includeDetails.
StandaloneCallTool(i) ==
    /\ impl = "standalone"
    /\ transport = "connected"
    /\ pc[i] = "idle"
    /\ \E tool \in ToolNames, args \in Arguments :
         LET q == QueryOf(args)
         IN  /\ name' = [name EXCEPT ![i] = tool]
             /\ budget' = [budget EXCEPT ![i] = MaxDeviations]
             /\ IF tool # ToolName
                THEN /\ pc' = [pc EXCEPT ![i] = "done"]
                     /\ result' = [result EXCEPT ![i] =
                                      Response(UnknownToolText(tool), TRUE)]
                     /\ calls' = [calls EXCEPT ![i] = NoCalls]
                     /\ UNCHANGED <<params, query, limit, includeDetails>>
                ELSE IF args.t # "object"
                THEN \* params.query: TypeError, outside the try
                     /\ pc' = [pc EXCEPT ![i] = "done"]
                     /\ result' = [result EXCEPT ![i] = Thrown("TypeError")]
                     /\ calls' = [calls EXCEPT ![i] = NoCalls]
                     /\ UNCHANGED <<params, query, limit, includeDetails>>
                ELSE IF q = <<>>
                THEN /\ pc' = [pc EXCEPT ![i] = "done"]
                     /\ result' = [result EXCEPT ![i] = Response(NoQueryText, FALSE)]
                     /\ calls' = [calls EXCEPT ![i] = NoCalls]
                     /\ params' = [params EXCEPT ![i] = args]
                     /\ query' = [query EXCEPT ![i] = q]
                     /\ UNCHANGED <<limit, includeDetails>>
                ELSE IF ~hasData
                THEN /\ pc' = [pc EXCEPT ![i] = "done"]
                     /\ result' = [result EXCEPT ![i] = Response(EmptyDatabaseText, FALSE)]
                     /\ calls' = [calls EXCEPT ![i] = [NoCalls EXCEPT !.hasData = 1]]
                     /\ params' = [params EXCEPT ![i] = args]
                     /\ query' = [query EXCEPT ![i] = q]
                     /\ UNCHANGED <<limit, includeDetails>>
                ELSE /\ pc' = [pc EXCEPT ![i] = "search"]
                     /\ calls' = [calls EXCEPT ![i] = [NoCalls EXCEPT !.hasData = 1]]
                     /\ params' = [params EXCEPT ![i] = args]
                     /\ query' = [query EXCEPT ![i] = q]
                     /\ limit' = [limit EXCEPT ![i] = LimitOf(args)]
                     /\ includeDetails' = [includeDetails EXCEPT ![i] = IncludeDetailsOf(args)]
                     /\ UNCHANGED result
    /\ UNCHANGED <<impl, env, transport, clientReady, hasData, results, payload, nextIndex,
                   activeCount, allDetails, inFlight, recorded, hung, loopIndex>>

\* api_docs.GetAPISearch(query), the no-results message or the payload; a
\* throw lands in the catch.  params is not read from here on.
StandaloneSearch(i) ==
    /\ impl = "standalone"
    /\ pc[i] = "search"
    /\ \E answer \in SearchAnswers \cup {[t |-> "error"]} :
       /\ results' = [results EXCEPT ![i] = IF answer.t = "error" THEN @ ELSE answer]
       /\
         IF answer.t = "error"
         THEN /\ pc' = [pc EXCEPT ![i] = "done"]
              /\ result' = [result EXCEPT ![i] = Caught(StandaloneFailedText)]
              /\ UNCHANGED payload
         ELSE IF NoMatches(answer)
         THEN /\ pc' = [pc EXCEPT ![i] = "done"]
              /\ result' = [result EXCEPT ![i] = Response(NoResultsText(query[i]), FALSE)]
              /\ UNCHANGED payload
         ELSE LET p == BuildPayload(query[i], answer.list, limit[i])
              IN  /\ payload' = [payload EXCEPT ![i] = p]
                  /\ IF includeDetails[i]
                     THEN /\ pc' = [pc EXCEPT ![i] = "loop"]
                          /\ UNCHANGED result
                     ELSE /\ pc' = [pc EXCEPT ![i] = "done"]
                          /\ result' = [result EXCEPT ![i] = Response(Stringify(p), FALSE)]
    /\ calls' = [calls EXCEPT ![i].search = @ + 1]
    /\ params' = [params EXCEPT ![i] = NoParams]
    /\ loopIndex' = [loopIndex EXCEPT ![i] = 0]
    /\ UNCHANGED <<impl, env, transport, name, clientReady, hasData, query, limit, includeDetails,
                   nextIndex, activeCount, allDetails, inFlight, recorded, hung, budget>>

\* One turn of for (const item of payload.items): if (item.data) { try {
\* details = GetAPIDetails(item.data); if (details) item.details = details }
\* catch { log } }
StandaloneDetail(i) ==
    /\ impl = "standalone"
    /\ pc[i] = "loop"
    /\ loopIndex[i] < Len(payload[i].items)
    /\ LET item == ItemAt(payload[i], loopIndex[i])
       IN  IF Truthy(item.data)
           THEN \E outcome \in Outcomes(item.data) :
                  LET cost == Cost(~IsNominal(outcome, item.data))
                  IN  /\ Budgeted => cost <= budget[i]
                      /\ budget' = [budget EXCEPT ![i] = IF Budgeted THEN @ - cost ELSE @]
                      /\ calls' = [calls EXCEPT
                             ![i].fetchDetail = Append(@, loopIndex[i]),
                             ![i].settled = Append(@, [index |-> loopIndex[i],
                                                       outcome |-> outcome])]
                      /\ IF outcome.ok /\ Truthy(outcome.details)
                         THEN payload' = [payload EXCEPT
                                  ![i].items[loopIndex[i] + 1].details = outcome.details]
                         ELSE UNCHANGED payload
           ELSE UNCHANGED <<budget, calls, payload>>
    /\ loopIndex' = [loopIndex EXCEPT ![i] = @ + 1]
    /\ UNCHANGED <<impl, env, transport, name, clientReady, hasData, results, pc, params,
                   query, limit, includeDetails, nextIndex, activeCount, allDetails,
                   inFlight, recorded, hung, result>>

\* return JSON.stringify(payload, null, 2) after the loop.
StandaloneReturn(i) ==
    /\ impl = "standalone"
    /\ pc[i] = "loop"
    /\ loopIndex[i] = Len(payload[i].items)
    /\ pc' = [pc EXCEPT ![i] = "done"]
    /\ result' = [result EXCEPT ![i] = Response(Stringify(payload[i]), FALSE)]
    /\ UNCHANGED <<impl, env, transport, name, clientReady, hasData, results, params, query,
                   limit, includeDetails, payload, nextIndex, activeCount, allDetails,
                   inFlight, recorded, hung, loopIndex, budget, calls>>

(* ---------------------------- specification --------------------------- *)

Next ==
    \/ \E i \in Slots : IntegratedCallTool(i)
    \/ \E i \in Slots : IntegratedReady(i)
    \/ \E i \in Slots : IntegratedSearchResponse(i)
    \/ \E i \in Slots : IntegratedRecord(i)
    \/ \E i \in Slots : IntegratedFinally(i)
    \/ \E i \in Slots : IntegratedComplete(i)
    \/ \E i \in Slots : StandaloneCallTool(i)
    \/ \E i \in Slots : StandaloneSearch(i)
    \/ \E i \in Slots : StandaloneDetail(i)
    \/ \E i \in Slots : StandaloneReturn(i)
    \/ \E i \in Slots : Deliver(i)
    \/ Start
    \/ GateSettles
    \/ TypesLoaded

Spec == Init /\ [][Next]_vars

(* ------------------- the server started and stopped ------------------ *)

\* Every operation of the server, stop() and list_tools included, in the
\* small environment.
NextLifecycle ==
    \/ Next
    \/ Stop
    \/ ListTools

SpecLifecycle == InitSmall /\ [][NextLifecycle]_vars

(* ------------------ one invocation after a failed one ----------------- *)

\* The search request of an invocation failed: it was sent and no answer
\* was stored.
SearchFailed(i) == pc[i] = "done" /\ calls[i].search = 1 /\ results[i] = Undefined

\* The invocation of the integrated server found the gate rejected: it had
\* a query and ended without sending the search request.
GateRejected(i) ==
    /\ impl = "integrated"
    /\ pc[i] = "done"
    /\ name[i] = ToolName
    /\ query[i] # <<>>
    /\ calls[i].search = 0

PipelineFailed(i) == SearchFailed(i) \/ GateRejected(i)

\* A first invocation (slot 1) runs to its end; once it has ended in a
\* failure of the pipeline, a second one (slot 2) is received and served.
NextSequel ==
    \/ IntegratedCallTool(1)
    \/ IntegratedReady(1)
    \/ IntegratedSearchResponse(1)
    \/ IntegratedRecord(1)
    \/ IntegratedFinally(1)
    \/ IntegratedComplete(1)
    \/ StandaloneCallTool(1)
    \/ StandaloneSearch(1)
    \/ StandaloneDetail(1)
    \/ StandaloneReturn(1)
    \/ PipelineFailed(1) /\ IntegratedCallTool(2)
    \/ IntegratedReady(2)
    \/ IntegratedSearchResponse(2)
    \/ IntegratedRecord(2)
    \/ IntegratedFinally(2)
    \/ IntegratedComplete(2)
    \/ PipelineFailed(1) /\ StandaloneCallTool(2)
    \/ StandaloneSearch(2)
    \/ StandaloneDetail(2)
    \/ StandaloneReturn(2)
    \/ Deliver(2)
    \/ Start
    \/ GateSettles
    \/ TypesLoaded

SpecSequel == InitSmall /\ [][NextSequel]_vars

(* ---------------------- two invocations at a time --------------------- *)

\* The integrated server with two requests in hand: each handler runs up to
\* its next await, and the two take turns in any order.
InitPair ==
    /\ impl = "integrated"
    /\ env = "small"
    /\ Constructed

NextPair ==
    \/ \E i \in AllSlots : IntegratedCallTool(i)
    \/ \E i \in AllSlots : IntegratedReady(i)
    \/ \E i \in AllSlots : IntegratedSearchResponse(i)
    \/ \E i \in AllSlots : IntegratedRecord(i)
    \/ \E i \in AllSlots : IntegratedFinally(i)
    \/ \E i \in AllSlots : IntegratedComplete(i)
    \/ \E i \in AllSlots : Deliver(i)
    \/ Start
    \/ GateSettles
    \/ TypesLoaded

SpecPair == InitPair /\ [][NextPair]_vars

(* ------------------- requests that settle, or hang ------------------- *)

\* Spec states no fairness: a request that is never answered is among its
\* behaviours already.  SpecFair tells the requests that are never answered
\* (hung) from the others, which the language server answers in the end, and
\* lets every handler that is due run, as the event loop does.
InitFair ==
    /\ impl = "integrated"
    /\ env \in {"exhaustive", "large"}
    /\ Constructed

NextFair ==
    \/ \E i \in Slots : IntegratedCallTool(i)
    \/ \E i \in Slots : IntegratedReady(i)
    \/ \E i \in Slots : IntegratedSearchResponse(i)
    \/ \E i \in Slots : IntegratedRecord(i)
    \/ \E i \in Slots : FetchHangs(i)
    \/ \E i \in Slots : IntegratedFinally(i)
    \/ \E i \in Slots : IntegratedComplete(i)
    \/ \E i \in Slots : Deliver(i)
    \/ Start
    \/ GateSettles
    \/ TypesLoaded

Fairness ==
    \A i \in Slots :
        /\ WF_vars(IntegratedRecord(i))
        /\ WF_vars(IntegratedFinally(i))
        /\ WF_vars(IntegratedComplete(i))

SpecFair == InitFair /\ [][NextFair]_vars /\ Fairness

(* ------------------------------- claims ------------------------------- *)

\* The item indices 0..N-1 of an invocation's payload.
Indices(i) == 0..(Len(payload[i].items) - 1)

\* The fetchDetail calls an invocation has issued that have not settled yet.
Unsettled(i) ==
    {k \in 1..Len(calls[i].fetchDetail) :
        \A j \in 1..Len(calls[i].settled) :
            calls[i].settled[j].index # calls[i].fetchDetail[k]}

\* The invocation returned the serialized payload.
ReturnedJson(i) ==
    pc[i] = "done" /\ result[i].t = "response" /\ result[i].text.t = "json"

\* The details an item of the response carries (Undefined: it carries none).
DetailsOf(item) == IF "details" \in DOMAIN item THEN item.details ELSE Undefined

\* C1: in the integrated server, in every reachable state and under every
\* order of settlements, the fetchDetail calls issued and not yet settled are
\* at most CONCURRENCY_LIMIT = 10, for every N (N > 10 included); so are the
\* requests the window counts as active.
C1_AtMostTenInFlight ==
    \A i \in AllSlots :
        impl = "integrated" =>
            /\ Cardinality(Unsettled(i)) <= CONCURRENCY_LIMIT
            /\ Cardinality(inFlight[i]) <= CONCURRENCY_LIMIT
            /\ activeCount[i] <= CONCURRENCY_LIMIT

\* C1 witness: more than ten items, the window full (ten calls unsettled)
\* with an index still to dispatch, after a settlement has already refilled it.
C1_Witness ==
    \E i \in AllSlots :
        /\ impl = "integrated"
        /\ pc[i] = "enriching"
        /\ Len(payload[i].items) > CONCURRENCY_LIMIT
        /\ Cardinality(Unsettled(i)) = CONCURRENCY_LIMIT
        /\ Len(calls[i].settled) >= 1
        /\ Len(calls[i].fetchDetail) = CONCURRENCY_LIMIT + 1

\* How often fetchDetail was called for an index.
TimesFetched(i, index) ==
    Cardinality({k \in 1..Len(calls[i].fetchDetail) : calls[i].fetchDetail[k] = index})

\* C2: in the integrated server, for every N and every settlement order, the
\* items of the returned payload are the provider's matches in rank order,
\* the detail a fetch returned for index i is the detail of items[i], and no
\* other item carries it.
C2_RankOrderAndDetailsByIndex ==
    \A i \in AllSlots :
        (impl = "integrated" /\ ReturnedJson(i)) =>
            LET items == result[i].text.items
                list == results[i].list
                settled == calls[i].settled
            IN  /\ Len(items) <= Len(list)
                /\ \A k \in 1..Len(items) : items[k].label = list[k].label
                /\ \A j \in 1..Len(settled) :
                       /\ DetailsOf(items[settled[j].index + 1]) = settled[j].outcome.details
                       /\ \A k \in 1..Len(items) :
                              (k # settled[j].index + 1 /\ Truthy(settled[j].outcome.details))
                                  => DetailsOf(items[k]) # settled[j].outcome.details
                /\ \A k \in 1..Len(items) :
                       DetailsOf(items[k]) # Undefined
                           => \E j \in 1..Len(settled) : settled[j].index = k - 1

\* C2 witness: three fetches settled last-issued first, each with its own
\* document, and the payload was returned.
C2_Witness ==
    \E i \in AllSlots :
        /\ impl = "integrated"
        /\ ReturnedJson(i)
        /\ Len(calls[i].settled) = 3
        /\ calls[i].settled[1].index = 2
        /\ calls[i].settled[3].index = 0
        /\ \A k \in 1..3 : Truthy(DetailsOf(result[i].text.items[k]))

\* C3 (as claimed): when exactly one of the N fetches failed, the invocation
\* returns the payload, the item of the failed fetch has no details and every
\* other item carries the detail its own fetch returned.
C3_OneFailureIsIsolated ==
    \A i \in AllSlots :
        LET N == Len(payload[i].items)
            settled == calls[i].settled
            failed == {j \in 1..Len(settled) : ~settled[j].outcome.ok}
        IN  (/\ pc[i] = "done"
             /\ N > 0
             /\ \A index \in Indices(i) : TimesFetched(i, index) = 1
             /\ Len(settled) = N
             /\ Cardinality(failed) = 1)
            => /\ ReturnedJson(i)
               /\ \A j \in 1..Len(settled) :
                      DetailsOf(result[i].text.items[settled[j].index + 1])
                          = settled[j].outcome.details

\* C4 (as claimed): when details are requested, fetchDetail is called exactly
\* once for every index 0..N-1 of the returned items, whatever the item's
\* token, and never twice for an index.
C4_EveryIndexFetchedOnce ==
    \A i \in AllSlots :
        /\ \A index \in Indices(i) : TimesFetched(i, index) <= 1
        /\ (ReturnedJson(i) /\ includeDetails[i])
               => \A index \in Indices(i) : TimesFetched(i, index) = 1

\* C5: in the integrated server the enrichment step is resolved, and the
\* payload serialized after it, only with nextIndex = N, activeCount = 0, no
\* request pending and one recorded detail per index; the step is never
\* entered with N = 0, and an empty answer ends the invocation with no fetch.
C5_ResolvedOnlyWhenAllSettled ==
    \A i \in AllSlots :
        impl = "integrated" =>
            LET N == Len(payload[i].items)
            IN  /\ (pc[i] = "resolved" \/ (ReturnedJson(i) /\ includeDetails[i]))
                    => /\ nextIndex[i] = N
                       /\ activeCount[i] = 0
                       /\ inFlight[i] = {}
                       /\ recorded[i] = {}
                       /\ Unsettled(i) = {}
                       /\ Len(allDetails[i]) = N
                       /\ {allDetails[i][k].index : k \in 1..N} = Indices(i)
                /\ pc[i] = "enriching" => N > 0
                /\ (pc[i] = "done" /\ calls[i].search = 1 /\ N = 0)
                    => calls[i].fetchDetail = <<>>

\* C5 witness: an enrichment of more than ten items has just been resolved.
C5_Witness ==
    \E i \in AllSlots :
        /\ impl = "integrated"
        /\ pc[i] = "resolved"
        /\ Len(payload[i].items) > CONCURRENCY_LIMIT
        /\ Len(allDetails[i]) = Len(payload[i].items)

\* C6: includeDetails is off exactly when the raw argument is the literal
\* false (absent, null, 0 and "false" all turn it on); when it is off no
\* fetchDetail call is made for any N and no returned item has details; when
\* it is on and some item has a token, fetchDetail is called.
C6_OnlyLiteralFalseDisablesDetails ==
    \A i \in AllSlots :
        /\ pc[i] \in {"awaitSearch", "search"}
               => (~includeDetails[i]
                      <=> (params[i].includeDetails.t = "boolean"
                              /\ ~params[i].includeDetails.b))
        /\ ~includeDetails[i]
               => /\ calls[i].fetchDetail = <<>>
                  /\ calls[i].settled = <<>>
                  /\ ReturnedJson(i)
                         => \A k \in 1..Len(result[i].text.items) :
                                "details" \notin DOMAIN result[i].text.items[k]
        /\ (includeDetails[i] /\ ReturnedJson(i)
                /\ \E k \in 1..Len(payload[i].items) : Truthy(payload[i].items[k].data))
               => calls[i].fetchDetail # <<>>

\* C6 witness: a payload of three items returned with details off and no
\* fetchDetail call.
C6_Witness ==
    \E i \in AllSlots :
        /\ ReturnedJson(i)
        /\ ~includeDetails[i]
        /\ Len(result[i].text.items) = 3
        /\ calls[i].search = 1
        /\ calls[i].fetchDetail = <<>>

\* C7: once the payload is built from N >= 1 matches under the effective
\* limit L, total = N, returned = min(N, L), truncated <=> N > returned, and
\* the items are the first `returned` matches in provider order; the returned
\* document says the same after enrichment.
C7_PayloadCounts ==
    \A i \in AllSlots :
        payload[i] # NoPayload =>
            LET list == results[i].list
                N == Len(list)
                L == limit[i]
                p == payload[i]
                SameMatches(items) ==
                    /\ Len(items) = p.returned
                    /\ \A k \in 1..Len(items) :
                           /\ items[k].label = list[k].label
                           /\ list[k].data.t = "object"
                                  => ("data" \in DOMAIN items[k] /\ items[k].data = list[k].data)
            IN  /\ N >= 1
                /\ p.total = N
                /\ p.returned = (IF N <= L THEN N ELSE L)
                /\ p.truncated <=> (N > p.returned)
                /\ SameMatches(p.items)
                /\ p.query = query[i]
                /\ ReturnedJson(i)
                       => /\ result[i].text.total = N
                          /\ result[i].text.returned = p.returned
                          /\ result[i].text.truncated = p.truncated
                          /\ result[i].text.query = p.query
                          /\ SameMatches(result[i].text.items)

\* C7 witness: three matches under limit 2, returned truncated after both
\* items' fetches settled.
C7_Witness ==
    \E i \in AllSlots :
        /\ ReturnedJson(i)
        /\ result[i].text.total = 3
        /\ result[i].text.returned = 2
        /\ result[i].text.truncated
        /\ Len(calls[i].settled) = 2

\* C8: the effective limit is in 1..1000; for a number x = n/d it is
\* min(max(floor(x), 1), 1000), that is 1 when x < 2, 1000 when x >= 1000 and
\* otherwise the integer l with l <= x < l + 1; for anything else it is 500.
C8_LimitClamped ==
    \A i \in AllSlots :
        /\ pc[i] \in {"awaitSearch", "search"} =>
               LET raw == params[i].limit
                   l == limit[i]
               IN  IF raw.t = "number"
                   THEN /\ raw.n < 2 * raw.d => l = 1
                        /\ raw.n >= 1000 * raw.d => l = 1000
                        /\ (2 * raw.d <= raw.n /\ raw.n < 1000 * raw.d)
                               => (l * raw.d <= raw.n /\ raw.n < (l + 1) * raw.d)
                   ELSE l = 500
        /\ (pc[i] \in {"awaitSearch", "search", "enriching", "resolved", "loop"}
                \/ payload[i] # NoPayload)
               => limit[i] \in 1..1000

\* C8 witness: the limit 0.5 has become 1.
C8_Witness ==
    \E i \in AllSlots :
        /\ pc[i] \in {"awaitSearch", "search"}
        /\ params[i].limit = Num(1, 2)
        /\ limit[i] = 1

\* A raw query that is empty after trimming: not a string, or only whitespace.
BlankQuery(v) == v.t # "string" \/ \A k \in 1..Len(v.s) : v.s[k] \in Whitespace

\* C9: an invocation whose raw query is empty after trimming (or is not a
\* string) has returned the "No query provided" message and made no call to
\* hasData, search or fetchDetail; no invocation makes a provider call
\* without a non-empty query.
C9_EmptyQueryShortCircuits ==
    \A i \in AllSlots :
        /\ (params[i].t = "object" /\ BlankQuery(params[i].query))
               => /\ pc[i] = "done"
                  /\ result[i] = Response(NoQueryText, FALSE)
                  /\ calls[i] = NoCalls
        /\ (pc[i] # "idle" /\ query[i] = <<>>) => calls[i] = NoCalls

\* C9 witness: a whitespace-only query was answered with the message.
C9_Witness ==
    \E i \in AllSlots :
        /\ pc[i] = "done"
        /\ params[i].t = "object"
        /\ params[i].query = Str(<<" ", "\t">>)
        /\ result[i] = Response(NoQueryText, FALSE)

\* C10 (as claimed): an invocation with a non-empty query, while the provider
\* has no data loaded, calls neither search nor fetchDetail and ends with
\* the "type database is empty" message.
C10_NoDataShortCircuits ==
    \A i \in AllSlots :
        (pc[i] # "idle" /\ query[i] # <<>> /\ ~hasData)
            => /\ calls[i].search = 0
               /\ calls[i].fetchDetail = <<>>
               /\ pc[i] = "done" => result[i] = Response(EmptyDatabaseText, FALSE)

\* C11: a call_tool request for any name other than "angelscript_searchApi"
\* is answered at once with the text "Unknown tool: <name>" and isError set:
\* it is not thrown, it waits for nothing and it makes no hasData, search or
\* fetchDetail call.  A response to a request for the known name carries one
\* of the pipeline's texts and no error flag.
C11_UnknownToolIsAnErrorResponse ==
    \A i \in AllSlots :
        /\ (pc[i] # "idle" /\ name[i] # ToolName)
               => /\ pc[i] = "done"
                  /\ result[i] = Response(UnknownToolText(name[i]), TRUE)
                  /\ result[i].isError
                  /\ calls[i] = NoCalls
        /\ (pc[i] = "done" /\ name[i] = ToolName /\ result[i].t = "response")
               => /\ ~result[i].isError
                  /\ \/ result[i].text.t = "json"
                     \/ result[i].text \in
                            {NoQueryText, EmptyDatabaseText, NoResultsText(query[i]),
                             IntegratedFailedText, StandaloneFailedText}

\* C11 witness: the tool "foo" was asked for and the error response is out.
C11_Witness ==
    \E i \in AllSlots :
        /\ pc[i] = "done"
        /\ name[i] = <<"foo">>
        /\ result[i] = [t |-> "response", text |-> Str(<<"Unknown tool: ", "foo">>),
                        isError |-> TRUE]

\* The details the response carries for the item at an index, from how the
\* fetch for that index ended (Undefined: none).
AloneDetails(i, index) ==
    LET settled == calls[i].settled
        mine == {j \in 1..Len(settled) : settled[j].index = index}
    IN  IF mine = {}
        THEN Undefined
        ELSE LET outcome == settled[CHOOSE j \in mine : TRUE].outcome
             IN  IF impl = "integrated" \/ (outcome.ok /\ Truthy(outcome.details))
                 THEN outcome.details
                 ELSE Undefined

\* What a server that handles nothing else, and has handled nothing before,
\* returns for the request of slot i, given what the provider answered it.
AloneResult(i) ==
    LET base == BuildPayload(query[i], results[i].list, limit[i])
        enriched == [base EXCEPT !.items =
                        [k \in 1..Len(base.items) |->
                            [base.items[k] EXCEPT !.details = AloneDetails(i, k - 1)]]]
        failed == IF impl = "integrated" THEN IntegratedFailedText ELSE StandaloneFailedText
    IN  IF name[i] # ToolName THEN Response(UnknownToolText(name[i]), TRUE)
        ELSE IF query[i] = <<>> /\ params[i] = NoParams THEN Thrown("TypeError")
        ELSE IF query[i] = <<>> THEN Response(NoQueryText, FALSE)
        ELSE IF calls[i].search = 0
        THEN Response(IF impl = "integrated" THEN failed ELSE EmptyDatabaseText, FALSE)
        ELSE IF results[i] = Undefined THEN Response(failed, FALSE)
        ELSE IF NoMatches(results[i]) THEN Response(NoResultsText(query[i]), FALSE)
        ELSE Response(Stringify(enriched), FALSE)

\* C12: an invocation whose search request failed, or that found the gate
\* rejected, returns the server's "failed to run" text as an ordinary
\* response (nothing is thrown) and issues no fetchDetail; the invocation
\* received after it is answered exactly as a server without that past
\* answers it.
C12_PipelineFailureIsContained ==
    /\ \A i \in AllSlots :
           PipelineFailed(i)
               => /\ result[i] =
                         [t |-> "response",
                          text |-> IF impl = "integrated"
                                   THEN IntegratedFailedText ELSE StandaloneFailedText,
                          isError |-> FALSE]
                  /\ calls[i].fetchDetail = <<>>
                  /\ calls[i].settled = <<>>
    /\ pc[2] # "idle" => PipelineFailed(1)
    /\ pc[2] = "done" => result[2] = AloneResult(2)

\* C12 witness: the first invocation's search failed, and the second one
\* returned two items with their details.
C12_Witness ==
    /\ SearchFailed(1)
    /\ ReturnedJson(2)
    /\ Len(result[2].text.items) = 2
    /\ \A k \in 1..2 : Truthy(DetailsOf(result[2].text.items[k]))

\* C13 (as claimed): validation never throws: whatever arguments a request
\* for the tool carries (none at all included), the handler does not reject;
\* it has either returned the "No query provided" message or holds a
\* non-empty trimmed query, and past the gate a limit in 1..1000.
C13_ValidationNeverThrows ==
    \A i \in AllSlots :
        (pc[i] # "idle" /\ name[i] = ToolName)
            => /\ result[i].t # "thrown"
               /\ query[i] = <<>>
                      => (pc[i] = "done" /\ result[i] = Response(NoQueryText, FALSE))
               /\ pc[i] \in {"awaitSearch", "search"} => limit[i] \in LimitMin..LimitMax

\* C14: in the integrated server, while an enrichment runs, activeCount <
\* CONCURRENCY_LIMIT implies nextIndex = N: every settlement whose handlers
\* have finished has refilled the window.  So activeCount is min(K, N - f),
\* f being the fetches whose handlers have finished, and when no handler is
\* half-way the fetches in flight are min(K, indices not yet settled).
C14_WindowRefilledOnEachSettlement ==
    \A i \in AllSlots :
        (impl = "integrated" /\ pc[i] = "enriching") =>
            LET N == Len(payload[i].items)
                finished == Len(allDetails[i]) - Cardinality(recorded[i])
            IN  /\ activeCount[i] < CONCURRENCY_LIMIT => nextIndex[i] = N
                /\ activeCount[i] = Min(CONCURRENCY_LIMIT, N - finished)
                /\ recorded[i] = {}
                       => Cardinality(Unsettled(i))
                              = Min(CONCURRENCY_LIMIT, N - Len(calls[i].settled))

\* C14 witness: eleven items, nine fetches of the first fill still pending,
\* and the one settlement so far has already admitted the eleventh.
C14_Witness ==
    \E i \in AllSlots :
        /\ impl = "integrated"
        /\ pc[i] = "enriching"
        /\ Len(payload[i].items) = CONCURRENCY_LIMIT + 1
        /\ Len(allDetails[i]) = 1
        /\ recorded[i] = {}
        /\ nextIndex[i] = CONCURRENCY_LIMIT + 1
        /\ activeCount[i] = CONCURRENCY_LIMIT

\* A request is received and answered without a wait: an unknown tool, or no
\* query.
AnsweredAtOnce(j) == IntegratedCallTool(j) /\ pc'[j] = "done"

\* C15: in the integrated server every search and fetchDetail request of an
\* invocation is sent with the gate resolved (never while it is pending, never
\* after it was rejected), and while one invocation is suspended on the
\* pending gate the server still receives another request and can answer it
\* at once.
C15_ProviderCallsFollowTheGate ==
    \A i \in AllSlots :
        /\ (calls[i].search > 0 \/ calls[i].fetchDetail # <<>>)
               => clientReady = "resolved"
        /\ pc[i] \in {"awaitSearch", "enriching", "resolved"} => clientReady = "resolved"
        /\ (pc[i] = "awaitReady" /\ clientReady = "pending")
               => /\ calls[i] = NoCalls
                  /\ \A j \in AllSlots \ {i} :
                         pc[j] = "idle" => ENABLED AnsweredAtOnce(j)

\* C15 witness: slot 1 is suspended on the pending gate, and slot 2 has its
\* "No query provided" answer.
C15_Witness ==
    /\ clientReady = "pending"
    /\ pc[1] = "awaitReady"
    /\ pc[2] = "done"
    /\ result[2] = Response(NoQueryText, FALSE)

\* A step of invocation i that may write its nextIndex, activeCount or
\* allDetails.
OwnStep(i) ==
    \/ IntegratedSearchResponse(i)
    \/ IntegratedRecord(i)
    \/ IntegratedFinally(i)
    \/ Deliver(i)

\* C16: with two invocations of the integrated server in hand and their
\* steps interleaved in any order, an invocation's nextIndex, activeCount and
\* allDetails change only in its own steps, and each invocation returns what
\* a server handling it alone returns for the same request and the same
\* provider answers.
C16_InvocationsAreIndependent ==
    /\ [][\A i \in AllSlots :
              (\/ nextIndex'[i] # nextIndex[i]
               \/ activeCount'[i] # activeCount[i]
               \/ allDetails'[i] # allDetails[i]) => OwnStep(i)]_vars
    /\ [](\A i \in AllSlots : pc[i] = "done" => result[i] = AloneResult(i))

\* C16 witness: both invocations are in the middle of their enrichment, each
\* with one detail recorded and one request pending.
C16_Witness ==
    \A i \in AllSlots :
        /\ pc[i] = "enriching"
        /\ Len(allDetails[i]) = 1
        /\ inFlight[i] # {}
        /\ recorded[i] = {}

\* The enrichment of invocation i has come to rest on its hung requests:
\* every index is dispatched, everything else has settled, and each hung
\* request holds one unit of activeCount.
Stalled(i) ==
    /\ pc[i] = "enriching"
    /\ nextIndex[i] = Len(payload[i].items)
    /\ inFlight[i] = hung[i]
    /\ recorded[i] = {}
    /\ activeCount[i] = Cardinality(hung[i])
    /\ Len(allDetails[i]) = Len(payload[i].items) - Cardinality(hung[i])

\* C17: in the integrated server a detail request that never settles stays
\* in flight and keeps one unit of activeCount for good (nothing but its
\* settlement takes a request out of the window), the enrichment is never
\* resolved and the invocation never returns; and if the other requests
\* settle, every remaining index is still dispatched and settled, leaving
\* only the hung requests active.
C17_HungFetchHoldsOneSlot ==
    /\ [](\A i \in Slots :
              /\ hung[i] \subseteq inFlight[i]
              /\ activeCount[i] = Cardinality(inFlight[i]) + Cardinality(recorded[i])
              /\ hung[i] # {}
                     => /\ pc[i] = "enriching"
                        /\ result[i] = NoResult
                        /\ calls[i].resolveAll = 0
                        /\ activeCount[i] >= Cardinality(hung[i]))
    /\ [][\A i \in Slots :
              /\ hung[i] \subseteq hung'[i]
              /\ \A index \in inFlight[i] \ inFlight'[i] :
                     /\ index \notin hung[i]
                     /\ Len(calls'[i].settled) = Len(calls[i].settled) + 1]_vars
    /\ \A i \in Slots :
           [](hung[i] # {}
                  => <>[](Stalled(i) \/ Cardinality(hung[i]) >= CONCURRENCY_LIMIT))

\* C17 witness: eleven items, one request hung; the other ten have settled,
\* the eleventh after being admitted through a slot the hung one did not hold.
C17_Witness ==
    \E i \in Slots :
        /\ Stalled(i)
        /\ Len(payload[i].items) = CONCURRENCY_LIMIT + 1
        /\ Cardinality(hung[i]) = 1
        /\ activeCount[i] = 1

(* ------------------------------ C18 ----------------------------------- *)

\* The server is connected to a transport: requests reach its handlers.
Ready == transport = "connected"

\* C18 as stated: once the server is Ready, no operation (list_tools,
\* call_tool, start, stop) takes it to a state in which it no longer
\* accepts requests.
C18_ReadyIsPermanent == [][Ready => Ready']_vars

\* C18 amended: the server is either Uninitialized or Ready; a Ready server
\* accepts list_tools and, when no call is running in a slot, call_tool;
\* list_tools, call_tool, start and every step of a running call leave it
\* Ready, and only stop() (integrated server) takes it back to
\* Uninitialized, where nothing is accepted until start() makes it Ready
\* again.  The standalone server, which has no stop, stays Ready.
C18_OnlyStopLeavesReady ==
    /\ [](transport \in {"null", "connected"})
    /\ [](Ready <=> ENABLED ListTools)
    /\ [](\A i \in Slots :
              (Ready /\ pc[i] = "idle")
                  <=> ENABLED (IntegratedCallTool(i) \/ StandaloneCallTool(i)))
    /\ [][(Ready /\ ~Ready') => Stop]_vars
    /\ [][(impl = "standalone" /\ Ready) => Ready']_vars
    /\ [](~Ready => ENABLED (Start /\ Ready'))
    /\ [][(~Ready /\ Ready') => Start]_vars

\* C18 witness: the integrated server was Ready, accepted a call, and was
\* stopped while the call was enriching its items.
C18_Witness ==
    /\ impl = "integrated"
    /\ ~Ready
    /\ \E i \in Slots : pc[i] = "enriching" /\ inFlight[i] # {}

(* ------------------------------ C19 ----------------------------------- *)

\* C19: in the integrated server, when no detail request of an invocation
\* hangs, an enrichment that has started (N >= 1) is eventually resolved,
\* whatever the order and the outcomes of the settlements; resolveAll is
\* called exactly once per invocation (never during the enrichment, once when
\* it is resolved, never again before the response is delivered), and at the
\* step that calls it the accumulator holds one entry per index 0..N-1.
C19_EnrichmentCompletesOnce ==
    /\ \A i \in Slots :
           (pc[i] = "enriching") ~> (pc[i] = "resolved" \/ hung[i] # {})
    /\ [](\A i \in Slots :
              /\ calls[i].resolveAll <= 1
              /\ pc[i] = "enriching" => (calls[i].resolveAll = 0 /\ Len(payload[i].items) >= 1)
              /\ pc[i] = "resolved" => calls[i].resolveAll = 1
              /\ (ReturnedJson(i) /\ includeDetails[i]) => calls[i].resolveAll = 1)
    /\ [][\A i \in Slots :
              calls'[i].resolveAll > calls[i].resolveAll
                  => /\ pc[i] = "enriching"
                     /\ pc'[i] = "resolved"
                     /\ hung[i] = {}
                     /\ Len(allDetails'[i]) = Len(payload[i].items)
                     /\ \A index \in Indices(i) :
                            Cardinality({k \in 1..Len(allDetails'[i]) :
                                            allDetails'[i][k].index = index}) = 1]_vars

\* C19 witness: an enrichment of eleven items was resolved by one call of
\* resolveAll after the requests settled out of dispatch order, one of them
\* by failing.
C19_Witness ==
    \E i \in Slots :
        /\ pc[i] = "resolved"
        /\ calls[i].resolveAll = 1
        /\ Len(payload[i].items) = CONCURRENCY_LIMIT + 1
        /\ Len(allDetails[i]) = CONCURRENCY_LIMIT + 1
        /\ \E k \in 1..Len(allDetails[i]) : allDetails[i][k].index # k - 1

(* ------------------------------ C20 ----------------------------------- *)

\* An item with its details left out.
WithoutDetails(item) == [f \in DOMAIN item \ {"details"} |-> item[f]]

\* What a payload holds besides the details of its items.
Frame(p) ==
    [query |-> p.query,
     total |-> p.total,
     returned |-> p.returned,
     truncated |-> p.truncated,
     items |-> [k \in 1..Len(p.items) |-> WithoutDetails(p.items[k])]]

\* The detail step of an invocation is running or has just ended.
Enriching(i) == pc[i] \in {"enriching", "resolved", "loop"}

\* C20: in both servers the detail step changes nothing but the details of
\* the items.  While it runs and when it has ended, for every settlement
\* order and every set of failed requests, query, total, returned,
\* truncated, the number of items and each item's label, type and token are
\* those of the payload built from the search answer before the step; no
\* step of it changes them; and the response carries them unchanged.
C20_EnrichmentChangesOnlyDetails ==
    /\ [](\A i \in Slots :
              LET base == BuildPayload(query[i], results[i].list, limit[i])
              IN  /\ Enriching(i) => Frame(payload[i]) = Frame(base)
                  /\ (ReturnedJson(i) /\ includeDetails[i])
                         => /\ Frame(payload[i]) = Frame(base)
                            /\ Frame(result[i].text) = Frame(Stringify(base)))
    /\ [][\A i \in Slots :
              Enriching(i)
                  => /\ Frame(payload'[i]) = Frame(payload[i])
                     /\ query'[i] = query[i]
                     /\ limit'[i] = limit[i]
                     /\ results'[i] = results[i]]_vars

\* C20 witness: the integrated server returned a truncated payload after an
\* enrichment in which one request failed and another gave a document, the
\* requests having settled out of dispatch order.
C20_Witness ==
    \E i \in Slots :
        /\ impl = "integrated"
        /\ ReturnedJson(i)
        /\ includeDetails[i]
        /\ payload[i].truncated
        /\ \E k \in 1..Len(calls[i].settled) : ~calls[i].settled[k].outcome.ok
        /\ \E k \in 1..Len(payload[i].items) : payload[i].items[k].details # Undefined
        /\ \E k \in 1..Len(allDetails[i]) : allDetails[i][k].index # k - 1

====
